---- MODULE Spec2Model ----
(***************************************************************************)
(* Model of streetview_uploader.py: the command-line entry point (main),   *)
(* the video path (_upload_photo_sequence, _upload_file_resumable) with    *)
(* its resumable chunked upload, and the photo path (_upload_photo,        *)
(* _upload_file).                                                          *)
(*                                                                         *)
(* Sizes and offsets are counted in MiB: the source's chunk_size of        *)
(* 20 * 1024 * 1024 bytes is 20 here, and a file size of 45 is 45 MiB.     *)
(* Python integers are unbounded, so no width is modelled.                 *)
(*                                                                         *)
(* Every HTTP exchange and RPC the program issues is appended to `log`;    *)
(* a requests.post call is two steps (request sent, response handled) so   *)
(* that an exchange in flight is a state of the model.  Everything the     *)
(* program prints is appended to `stdout`.                                 *)
(***************************************************************************)
EXTENDS Integers, Sequences, FiniteSets, TLC

VARIABLES
    pc,           \* position of the single thread of control
    args,         \* parsed command line: which of --photo, --video, --googlemaps_key are given
    whitelisted,  \* whether the discovered API client has the photoSequence resource
    uploadUrl,    \* uploadUrl returned by startUpload, "None" before
    resumableUrl, \* X-Goog-Upload-URL of the start response, "None" before
    placeId,      \* result of _find_place, "None" when no place
    fileSize,     \* os.stat(args.video).st_size
    offset,       \* running offset of _upload_file_resumable
    last_chunk,   \* fileSize - offset, computed after the loop
    log,          \* exchanges issued so far, in order
    stdout,       \* lines printed so far, in order
    raised,       \* exception that ended the process, "None" otherwise
    exitStatus    \* exit status of the process, meaningful when pc = "exit"

vars == <<pc, args, whitelisted, uploadUrl, resumableUrl, placeId, fileSize,
          offset, last_chunk, log, stdout, raised, exitStatus>>

\* Largest file size (MiB) os.stat may report in the model.
MaxFileSize == 65

\* chunk_size = 20 * 1024 * 1024, in MiB.
chunk_size == 20

\* Response status codes a server answers with in the model.
Statuses == {200, 201, 204, 404, 500}

Is2xx(status) == status >= 200 /\ status <= 299

\* One logged exchange, in flight: its response has not arrived (answered is
\* FALSE, and status and urlHeader mean nothing yet).
Exchange(kind, command, off, len, place) ==
    [kind |-> kind, command |-> command, offset |-> off, length |-> len,
     answered |-> FALSE, status |-> 0, urlHeader |-> FALSE, placeId |-> place]

\* One logged RPC of the API client, which returns (ok) or raises HttpError.
Rpc(kind, command, place, ok) ==
    [Exchange(kind, command, 0, 0, place)
        EXCEPT !.answered = TRUE, !.status = IF ok THEN 200 ELSE 500]

\* The response to the last logged exchange arrives.
Answer(status, urlHeader) ==
    [log EXCEPT ![Len(log)].answered = TRUE,
                ![Len(log)].status = status,
                ![Len(log)].urlHeader = urlHeader]

\* One printed line: its text, the offsets it shows (none or one) and whether
\* it shows the response headers.
Line(msg, offsets, headers) == [msg |-> msg, offsets |-> offsets, headers |-> headers]

\* sys.exit(status): SystemExit ends the process with the given status.
SysExit(status) ==
    /\ pc' = "exit"
    /\ raised' = "SystemExit"
    /\ exitStatus' = status

\* An uncaught exception: the interpreter prints a traceback and exits 1.
Crash(exception) ==
    /\ pc' = "exit"
    /\ raised' = exception
    /\ exitStatus' = 1

Init ==
    /\ pc = "main"
    /\ args \in [photo : BOOLEAN, video : BOOLEAN, googlemaps_key : BOOLEAN]
    /\ whitelisted \in BOOLEAN
    /\ uploadUrl = "None"
    /\ resumableUrl = "None"
    /\ placeId = "None"
    /\ fileSize = 0
    /\ offset = 0
    /\ last_chunk = 0
    /\ log = <<>>
    /\ stdout = <<>>
    /\ raised = "None"
    /\ exitStatus = 0

\* Variant of is_whitelisted_api that lets every client through.
is_whitelisted_api_Always == TRUE

\* _is_whitelisted_api(): 'photoSequence' in _STREET_VIEW_PUBLISH_API
is_whitelisted_api == whitelisted

\* main(): argument checks and dispatch to the photo or the video path.
Main ==
    /\ pc = "main"
    /\ UNCHANGED <<args, whitelisted, uploadUrl, resumableUrl, placeId,
                   fileSize, offset, last_chunk, log>>
    /\ IF args.photo /\ args.video
       THEN /\ stdout' = Append(stdout, Line("Either a photo or a photo sequence can be uploaded, but not both.", {}, FALSE))
            /\ SysExit(1)
       ELSE IF args.photo
       THEN IF ~args.googlemaps_key
            THEN /\ stdout' = Append(stdout, Line("A valid Google Maps API key must be provided.", {}, FALSE))
                 /\ SysExit(1)
            ELSE /\ pc' = "_upload_photo"
                 /\ UNCHANGED <<stdout, raised, exitStatus>>
       ELSE IF args.video
       THEN IF ~is_whitelisted_api
            THEN /\ stdout' = Append(stdout, Line("The GCP project is not whitelisted to use Photo Sequences.", {}, FALSE))
                 /\ SysExit(1)
            ELSE /\ pc' = "_upload_photo_sequence"
                 /\ UNCHANGED <<stdout, raised, exitStatus>>
       ELSE /\ stdout' = Append(stdout, Line("Either a photo or a photo sequence must be provided.", {}, FALSE))
            /\ pc' = "exit"
            /\ UNCHANGED <<raised, exitStatus>>

(***************************************************************************)
(* Video path: _upload_photo_sequence and _upload_file_resumable.          *)
(***************************************************************************)

\* _upload_photo_sequence, first half: photoSequence().startUpload(body={}).
\* The RPC either returns the uploadUrl or raises HttpError.
PhotoSequenceStartUpload ==
    /\ pc = "_upload_photo_sequence"
    /\ \E ok \in BOOLEAN :
         /\ log' = Append(log, Rpc("photoSequence.startUpload", "{}", "None", ok))
         /\ IF ok
            THEN /\ uploadUrl' = "uploadUrl"
                 /\ pc' = "_upload_file_resumable"
                 /\ UNCHANGED <<raised, exitStatus>>
            ELSE /\ Crash("HttpError")
                 /\ UNCHANGED uploadUrl
    /\ UNCHANGED <<args, whitelisted, resumableUrl, placeId, fileSize, offset,
                   last_chunk, stdout>>

\* _upload_file_resumable, up to the point where the start request is on the
\* wire: os.stat gives the file size (or raises OSError for an unreadable
\* path), then the request with X-Goog-Upload-Command: start and
\* Content-Length: 0 is posted to uploadUrl.
ResumableStart ==
    /\ pc = "_upload_file_resumable"
    /\ \/ /\ Crash("OSError")
          /\ UNCHANGED <<fileSize, log>>
       \/ \E size \in 0..MaxFileSize :
            /\ fileSize' = size
            /\ log' = Append(log, Exchange("start", "start", 0, 0, "None"))
            /\ pc' = "start_response"
            /\ UNCHANGED <<raised, exitStatus>>
    /\ UNCHANGED <<args, whitelisted, uploadUrl, resumableUrl, placeId, offset,
                   last_chunk, stdout>>

\* The start response arrives (or requests.post raises).  The status code is
\* not looked at; resumableUrl.headers['X-Goog-Upload-URL'] raises KeyError
\* when the header is absent.  Then chunk_size and offset = 0 are set and the
\* file is opened.
StartResponse ==
    /\ pc = "start_response"
    /\ \/ /\ Crash("RequestException")
          /\ UNCHANGED <<log, resumableUrl, offset>>
       \/ \E status \in Statuses, urlHeader \in BOOLEAN :
            /\ log' = Answer(status, urlHeader)
            /\ IF urlHeader
               THEN /\ resumableUrl' = "resumableUrl"
                    /\ offset' = 0
                    /\ pc' = "loop"
                    /\ UNCHANGED <<raised, exitStatus>>
               ELSE /\ Crash("KeyError")
                    /\ UNCHANGED <<resumableUrl, offset>>
    /\ UNCHANGED <<args, whitelisted, uploadUrl, placeId, fileSize, last_chunk,
                   stdout>>

\* Variant of LoopCondition with <= in place of <.
LoopCondition_Inclusive(off, size) == off <= size - chunk_size

\* Variant of LoopCondition that compares against the whole file size.
LoopCondition_NoSubtract(off, size) == off < size

\* Loop condition: while (offset < (fileSize - chunk_size)).
LoopCondition(off, size) == off < size - chunk_size

\* Variant of NextOffset that skips one unit past the chunk just sent.
NextOffset_OffByOne(off) == off + chunk_size + 1

\* Variant of NextOffset that advances by two chunks.
NextOffset_Double(off) == off + 2 * chunk_size

\* offset = offset + chunk_size
NextOffset(off) == off + chunk_size

\* Variant of LastChunk that always sends a full chunk.
LastChunk_Full(size, off) == chunk_size

\* last_chunk = fileSize - offset
LastChunk(size, off) == size - off

\* Variant of ChunkFailed that never reports a failure.
ChunkFailed_Never(status) == FALSE

\* Variant of ChunkFailed that treats only 5xx as failure.
ChunkFailed_ServerErrorOnly(status) == status >= 500

\* Variant of ChunkFailed that accepts every 2xx status.
ChunkFailed_Non2xx(status) == status < 200 \/ status > 299

\* if (chunk_response.status_code != 200)
ChunkFailed(status) == status # 200

\* Variant of UploadCommand that finalizes with every chunk.
UploadCommand_Finalize == "upload, finalize"

\* 'X-Goog-Upload-Command' of a chunk inside the loop.
UploadCommand == "upload"

\* Variant of FinalizeCommand that never finalizes.
FinalizeCommand_Plain == "upload"

\* 'X-Goog-Upload-Command' of the chunk after the loop.
FinalizeCommand == "upload, finalize"

\* Loop body up to the post: a chunk of chunk_size bytes at offset is sent
\* with command `upload`.
SendChunk ==
    /\ pc = "loop"
    /\ LoopCondition(offset, fileSize)
    /\ log' = Append(log, Exchange("chunk", UploadCommand, offset, chunk_size, "None"))
    /\ pc' = "chunk_response"
    /\ UNCHANGED <<args, whitelisted, uploadUrl, resumableUrl, placeId,
                   fileSize, offset, last_chunk, stdout, raised, exitStatus>>

\* Rest of the loop body: the chunk's response arrives (or requests.post
\* raises).  A status other than 200 prints the response headers and calls
\* sys.exit() without an argument; otherwise the offset advances and the
\* percentage is printed.
ChunkResponse ==
    /\ pc = "chunk_response"
    /\ \/ /\ Crash("RequestException")
          /\ UNCHANGED <<log, offset, stdout>>
       \/ \E status \in Statuses :
            /\ log' = Answer(status, FALSE)
            /\ IF ChunkFailed(status)
               THEN /\ stdout' = Append(stdout, Line("Error", {}, TRUE))
                    /\ SysExit(0)
                    /\ UNCHANGED offset
               ELSE /\ offset' = NextOffset(offset)
                    /\ stdout' = Append(stdout, Line("Done %", {NextOffset(offset)}, FALSE))
                    /\ pc' = "loop"
                    /\ UNCHANGED <<raised, exitStatus>>
    /\ UNCHANGED <<args, whitelisted, uploadUrl, resumableUrl, placeId,
                   fileSize, last_chunk>>

\* After the loop: the remaining last_chunk bytes at offset are sent with
\* command `upload, finalize`.
SendLastChunk ==
    /\ pc = "loop"
    /\ ~LoopCondition(offset, fileSize)
    /\ last_chunk' = LastChunk(fileSize, offset)
    /\ log' = Append(log, Exchange("chunk", FinalizeCommand, offset,
                                   LastChunk(fileSize, offset), "None"))
    /\ pc' = "finalize_response"
    /\ UNCHANGED <<args, whitelisted, uploadUrl, resumableUrl, placeId,
                   fileSize, offset, stdout, raised, exitStatus>>

\* The response of the finalize chunk arrives (or requests.post raises).  A
\* status other than 200 prints the response headers and calls sys.exit()
\* without an argument; otherwise 'Done uploading!' and the upload URL are
\* printed and _upload_file_resumable returns.  offset is not changed.
FinalizeResponse ==
    /\ pc = "finalize_response"
    /\ \/ /\ Crash("RequestException")
          /\ UNCHANGED <<log, stdout>>
       \/ \E status \in Statuses :
            /\ log' = Answer(status, FALSE)
            /\ IF ChunkFailed(status)
               THEN /\ stdout' = Append(stdout, Line("Error", {}, TRUE))
                    /\ SysExit(0)
               ELSE /\ stdout' = stdout \o <<Line("Done uploading!", {}, FALSE),
                                             Line("Upload URL", {}, FALSE)>>
                    /\ pc' = "photoSequence_create"
                    /\ UNCHANGED <<raised, exitStatus>>
    /\ UNCHANGED <<args, whitelisted, uploadUrl, resumableUrl, placeId,
                   fileSize, offset, last_chunk>>

\* Variant of PhotoSequenceRequestPlace that copies the photo request's
\* places field into the video request.
PhotoSequenceRequestPlace_Attached == "placeId"

\* The place of photoSequenceRequest: the request is built with the
\* uploadReference only, so it names no place.
PhotoSequenceRequestPlace == "None"

\* _upload_photo_sequence, second half: photoSequence().create with the
\* uploadReference only (no places field) and inputType="VIDEO"; main then
\* returns.  The RPC either succeeds or raises HttpError.
PhotoSequenceCreate ==
    /\ pc = "photoSequence_create"
    /\ \E ok \in BOOLEAN :
         /\ log' = Append(log, Rpc("photoSequence.create", "VIDEO", PhotoSequenceRequestPlace, ok))
         /\ IF ok
            THEN /\ stdout' = Append(stdout, Line("Photo sequence created", {}, FALSE))
                 /\ pc' = "exit"
                 /\ UNCHANGED <<raised, exitStatus>>
            ELSE /\ Crash("HttpError")
                 /\ UNCHANGED stdout
    /\ UNCHANGED <<args, whitelisted, uploadUrl, resumableUrl, placeId,
                   fileSize, offset, last_chunk>>

(***************************************************************************)
(* Photo path: _upload_photo and _upload_file.                             *)
(***************************************************************************)

\* _upload_photo, first part: _find_place.  With a query or a valid lat/lon
\* the Google Maps API is asked and _pick_place returns a place id or None;
\* without either nothing is asked and the result is None.
FindPlace ==
    /\ pc = "_upload_photo"
    /\ \/ \E found \in {"None", "placeId"} :
            /\ log' = Append(log, Rpc("places", "query", found, TRUE))
            /\ placeId' = found
            /\ stdout' = IF found = "None"
                         THEN Append(stdout, Line("Place not found", {}, FALSE))
                         ELSE Append(stdout, Line("Place id", {}, FALSE))
       \/ /\ placeId' = "None"
          /\ stdout' = Append(stdout, Line("Either a query or a valid lat/lon must be provided.", {}, FALSE))
          /\ UNCHANGED log
    /\ pc' = "photo_startUpload"
    /\ UNCHANGED <<args, whitelisted, uploadUrl, resumableUrl, fileSize,
                   offset, last_chunk, raised, exitStatus>>

\* _upload_photo, second part: photo().startUpload(body={}).
PhotoStartUpload ==
    /\ pc = "photo_startUpload"
    /\ \E ok \in BOOLEAN :
         /\ log' = Append(log, Rpc("photo.startUpload", "{}", "None", ok))
         /\ IF ok
            THEN /\ uploadUrl' = "uploadUrl"
                 /\ pc' = "_upload_file"
                 /\ UNCHANGED <<raised, exitStatus>>
            ELSE /\ Crash("HttpError")
                 /\ UNCHANGED uploadUrl
    /\ UNCHANGED <<args, whitelisted, resumableUrl, placeId, fileSize, offset,
                   last_chunk, stdout>>

\* _upload_file: the file is opened and read (OSError when unreadable); the
\* arguments of requests.post are then evaluated, and the first of them,
\* upload_url, is a name bound nowhere (the parameter is uploadUrl), so
\* NameError is raised before any request is made.  The except clause
\* catches only RequestException, so the exception ends the process, and
\* the photo().create call that follows _upload_file is never reached.
UploadFile ==
    /\ pc = "_upload_file"
    /\ \/ Crash("OSError")
       \/ Crash("NameError")
    /\ UNCHANGED <<args, whitelisted, uploadUrl, resumableUrl, placeId,
                   fileSize, offset, last_chunk, log, stdout>>

Next ==
    \/ Main
    \/ PhotoSequenceStartUpload
    \/ ResumableStart
    \/ StartResponse
    \/ SendChunk
    \/ ChunkResponse
    \/ SendLastChunk
    \/ FinalizeResponse
    \/ PhotoSequenceCreate
    \/ FindPlace
    \/ PhotoStartUpload
    \/ UploadFile

Spec == Init /\ [][Next]_vars
\* The program is one thread of blocking calls: whenever a step is possible
\* (the next statement, or the answer to the exchange in flight) one is
\* eventually taken.
FairSpec == Spec /\ WF_vars(Next)

(***************************************************************************)
(* Session states of _upload_file_resumable, read off the program state.   *)
(***************************************************************************)

\* Started: the resumable URL has been taken from the start response.
Started == resumableUrl # "None"

\* Finalized: _upload_file_resumable has printed 'Done uploading!', which it
\* does right before returning.
Finalized == \E i \in DOMAIN stdout : stdout[i].msg = "Done uploading!"

\* Aborted: the process ended by an exception after the session began.
Aborted ==
    /\ raised # "None"
    /\ \E i \in DOMAIN log : log[i].kind = "start"

(***************************************************************************)
(* Vocabulary of the properties.                                           *)
(***************************************************************************)

IsChunk(e) == e.kind = "chunk"

\* The chunk exchanges issued so far, in order.
ChunkLog == SelectSeq(log, IsChunk)

Answered(e) == e.answered

RECURSIVE SumLengths(_)
SumLengths(r) == IF r = <<>> THEN 0 ELSE r[1].length + SumLengths(Tail(r))

IsAcked(e) == e.answered /\ e.status = 200

IsAckedNonFinal(e) == IsAcked(e) /\ e.command = "upload"

\* Bytes of the chunks acknowledged so far.
AckedBytes == SumLengths(SelectSeq(ChunkLog, IsAcked))

\* Bytes of the chunks sent inside the loop and acknowledged so far.
AckedNonFinalBytes == SumLengths(SelectSeq(ChunkLog, IsAckedNonFinal))

\* The (offset, length) pairs of the chunk exchanges issued so far.
Ranges == [i \in DOMAIN ChunkLog |-> <<ChunkLog[i].offset, ChunkLog[i].length>>]

(***************************************************************************)
(* C1                                                                      *)
(***************************************************************************)

\* C1: after a fully successful run on a file of size >= 1 the chunk ranges
\* start at offset 0, each is non-empty and begins where the previous one
\* ends, the last one ends at fileSize, and the lengths sum to fileSize.
C1_RangesPartitionFile ==
    (Finalized /\ fileSize >= 1) =>
        LET r == ChunkLog IN
        /\ Len(r) >= 1
        /\ r[1].offset = 0
        /\ \A i \in 1..Len(r) : r[i].length > 0
        /\ \A i \in 1..(Len(r) - 1) : r[i + 1].offset = r[i].offset + r[i].length
        /\ r[Len(r)].offset + r[Len(r)].length = fileSize
        /\ SumLengths(r) = fileSize

C1_Witness ==
    /\ Finalized
    /\ fileSize = 45
    /\ Ranges = << <<0, 20>>, <<20, 20>>, <<40, 5>> >>

(***************************************************************************)
(* C2                                                                      *)
(***************************************************************************)

\* C2: for a file of size >= 1, every chunk sent with `upload` has length
\* chunk_size, and the chunk sent with `upload, finalize` has length
\* fileSize mod chunk_size when that is non-zero and chunk_size otherwise.
C2_ChunkLengths ==
    fileSize >= 1 =>
        \A i \in DOMAIN ChunkLog :
            IF ChunkLog[i].command = "upload, finalize"
            THEN ChunkLog[i].length = IF fileSize % chunk_size # 0
                                      THEN fileSize % chunk_size
                                      ELSE chunk_size
            ELSE ChunkLog[i].length = chunk_size

C2_Witness ==
    /\ Finalized
    /\ fileSize = 40
    /\ Ranges = << <<0, 20>>, <<20, 20>> >>
    /\ ChunkLog[2].command = "upload, finalize"

(***************************************************************************)
(* C3                                                                      *)
(***************************************************************************)

\* C3: in a successful session exactly one chunk exchange carries
\* `upload, finalize`, it is the last chunk exchange, and every chunk
\* exchange before it carries `upload`.
C3_OneFinalizeLast ==
    Finalized =>
        LET r == ChunkLog IN
        /\ Len(r) >= 1
        /\ Cardinality({i \in DOMAIN r : r[i].command = "upload, finalize"}) = 1
        /\ r[Len(r)].command = "upload, finalize"
        /\ \A i \in 1..(Len(r) - 1) : r[i].command = "upload"

C3_Witness ==
    /\ Finalized
    /\ Len(ChunkLog) = 4
    /\ ChunkLog[4].command = "upload, finalize"

(***************************************************************************)
(* C4                                                                      *)
(***************************************************************************)

\* C4: once a chunk exchange (with `upload` or `upload, finalize`) has been
\* answered with a non-2xx status, the process has ended, that exchange is
\* the last one ever issued (no further chunk, no retry, no metadata call),
\* and the offset is still the offset of the failed chunk.
C4_ChunkFailureAborts ==
    \A i \in DOMAIN log :
        (IsChunk(log[i]) /\ Answered(log[i]) /\ ~Is2xx(log[i].status)) =>
            /\ pc = "exit"
            /\ Aborted
            /\ ~Finalized
            /\ i = Len(log)
            /\ offset = log[i].offset

C4_Witness ==
    /\ Len(ChunkLog) = 2
    /\ ChunkLog[1].status = 200
    /\ ChunkLog[2].status = 500
    /\ ChunkLog[2].offset = chunk_size
    /\ fileSize = 45
    /\ pc = "exit"

(***************************************************************************)
(* C5                                                                      *)
(***************************************************************************)

\* C5: at most one exchange is in flight; every chunk issued follows only
\* chunks acknowledged with 200; the offset of every chunk equals the sum of
\* the lengths of the chunks before it; offsets are strictly increasing.
C5_SequentialChunks ==
    LET r == ChunkLog IN
    /\ Cardinality({i \in DOMAIN log : ~Answered(log[i])}) <= 1
    /\ \A i \in DOMAIN r :
        /\ \A j \in 1..(i - 1) : IsAcked(r[j])
        /\ r[i].offset = SumLengths(SubSeq(r, 1, i - 1))
        /\ \A j \in 1..(i - 1) : r[j].offset < r[i].offset

C5_Witness ==
    /\ pc = "chunk_response"
    /\ Len(ChunkLog) = 3
    /\ ~Answered(ChunkLog[3])
    /\ ChunkLog[3].offset = 2 * chunk_size

(***************************************************************************)
(* C6                                                                      *)
(***************************************************************************)

\* C6: the session is Finalized only if the `upload, finalize` chunk was
\* answered with a success status, and photoSequence.create is issued only
\* in a Finalized session in which every chunk was answered with success.
C6_CreateOnlyAfterFinalized ==
    /\ Finalized =>
         \E i \in DOMAIN log :
            /\ IsChunk(log[i])
            /\ log[i].command = "upload, finalize"
            /\ Is2xx(log[i].status)
    /\ \A j \in DOMAIN log :
         log[j].kind = "photoSequence.create" =>
            /\ Finalized
            /\ \E i \in 1..(j - 1) :
                 /\ IsChunk(log[i])
                 /\ log[i].command = "upload, finalize"
                 /\ Is2xx(log[i].status)
            /\ \A i \in 1..(j - 1) : IsChunk(log[i]) => Is2xx(log[i].status)
    /\ pc = "photoSequence_create" => Finalized

C6_Witness ==
    /\ Finalized
    /\ \E j \in DOMAIN log : log[j].kind = "photoSequence.create"

(***************************************************************************)
(* C7                                                                      *)
(***************************************************************************)

C8_ExchangeSequence ==
    pc = "photoSequence_create" =>
        LET N == Len(ChunkLog) IN
        /\ N >= 1
        /\ Len(log) = N + 2
        /\ log[1].kind = "photoSequence.startUpload"
        /\ log[1].command = "{}"
        /\ log[2].kind = "start"
        /\ log[2].command = "start"
        /\ \A i \in 3..Len(log) :
            /\ IsChunk(log[i])
            /\ log[i].command = IF i = Len(log) THEN "upload, finalize" ELSE "upload"

C8_Witness ==
    /\ pc = "photoSequence_create"
    /\ Len(ChunkLog) = 3
    /\ Len(log) = 5

(***************************************************************************)
(* C9                                                                      *)
(***************************************************************************)

\* C9: when the start response is non-2xx or lacks X-Goog-Upload-URL, the
\* session is never Started and no chunk exchange is issued.
C9_StartFailureStopsSession ==
    \A i \in DOMAIN log :
        (/\ log[i].kind = "start"
         /\ Answered(log[i])
         /\ (~Is2xx(log[i].status) \/ ~log[i].urlHeader)) =>
            /\ ~Started
            /\ ChunkLog = <<>>

(***************************************************************************)
(* C10                                                                     *)
(***************************************************************************)

\* C10: when a chunk exchange has been answered with a non-2xx status, the
\* process has printed a line showing the chunk's offset and the response
\* headers and has ended with a non-zero exit status.
C10_FailureReportAndExitStatus ==
    \A i \in DOMAIN log :
        (IsChunk(log[i]) /\ Answered(log[i]) /\ ~Is2xx(log[i].status)) =>
            /\ pc = "exit"
            /\ exitStatus # 0
            /\ \E k \in DOMAIN stdout :
                 /\ stdout[k].headers
                 /\ log[i].offset \in stdout[k].offsets

(***************************************************************************)
(* C11                                                                     *)
(***************************************************************************)

\* C11: every chunk exchange ever issued has a positive length, whatever the
\* file size (a zero-length file included).
C11_ChunkLengthsPositive ==
    \A i \in DOMAIN ChunkLog : ChunkLog[i].length > 0

(***************************************************************************)
(* C13                                                                     *)
(***************************************************************************)

IsRawUpload(e) == e.kind = "photo.upload" /\ e.command = "raw"

IsVideoExchange(e) ==
    e.kind \in {"photoSequence.startUpload", "start", "chunk", "photoSequence.create"}

IsPhotoExchange(e) ==
    e.kind \in {"places", "photo.startUpload", "photo.upload", "photo.create"}

IsResumableExchange(e) == e.kind \in {"start", "chunk"}

\* C13: a photo run whose photo.startUpload returned and whose file was
\* readable has, when the process ends, issued exactly one whole-body upload
\* with protocol `raw` and no resumable exchange, followed by photo.create
\* when nothing was raised; a video run never issues a raw upload.
C13_PhotoSingleShot ==
    /\ (/\ pc = "exit"
        /\ raised # "OSError"
        /\ \E i \in DOMAIN log : log[i].kind = "photo.startUpload" /\ log[i].status = 200)
       => /\ Cardinality({i \in DOMAIN log : IsRawUpload(log[i])}) = 1
          /\ \A i \in DOMAIN log : ~IsResumableExchange(log[i])
          /\ raised = "None" => \E i \in DOMAIN log : log[i].kind = "photo.create"
    /\ (\E i \in DOMAIN log : IsVideoExchange(log[i]))
       => \A i \in DOMAIN log : ~IsRawUpload(log[i])

(***************************************************************************)
(* C14                                                                     *)
(***************************************************************************)

\* C14: a photoSequence.create request never names a place, and a run that
\* issues any exchange of the video path never asks the place resolver.
C14_NoPlaceOnVideoPath ==
    /\ \A i \in DOMAIN log :
         log[i].kind = "photoSequence.create" => log[i].placeId = "None"
    /\ (\E i \in DOMAIN log : IsVideoExchange(log[i]))
       => /\ \A i \in DOMAIN log : log[i].kind # "places"
          /\ placeId = "None"

C14_Witness ==
    /\ pc = "exit"
    /\ raised = "None"
    /\ \E i \in DOMAIN log : log[i].kind = "photoSequence.create" /\ log[i].status = 200

(***************************************************************************)
(* C15                                                                     *)
(***************************************************************************)

\* C15: a chunk answered with 200 is acknowledged (the offset has moved past
\* an `upload` chunk, the session is Finalized after the `upload, finalize`
\* chunk); a chunk answered with any other status, 201 and 204 included, is
\* the last exchange issued, the process has ended, and the offset is still
\* that chunk's offset.
C15_AckedExactlyOn200 ==
    \A i \in DOMAIN log :
        (IsChunk(log[i]) /\ Answered(log[i])) =>
            IF log[i].status = 200
            THEN IF log[i].command = "upload"
                 THEN offset >= log[i].offset + log[i].length
                 ELSE Finalized
            ELSE /\ pc = "exit"
                 /\ ~Finalized
                 /\ i = Len(log)
                 /\ offset = log[i].offset

C15_Witness ==
    /\ Len(ChunkLog) = 2
    /\ ChunkLog[1].status = 200
    /\ ChunkLog[2].answered
    /\ ChunkLog[2].status = 201
    /\ offset = chunk_size
    /\ pc = "exit"

(***************************************************************************)
(* C16                                                                     *)
(***************************************************************************)

\* max(1, ceil(fileSize / chunk_size))
MaxChunks ==
    IF fileSize <= chunk_size
    THEN 1
    ELSE (fileSize + chunk_size - 1) \div chunk_size

\* C16: once the start request is sent, the session eventually is Finalized
\* or Aborted; it never issues more than max(1, ceil(fileSize / chunk_size))
\* chunk exchanges; every loop iteration raises the offset by chunk_size.
C16_Terminates ==
    /\ [](Len(ChunkLog) <= MaxChunks)
    /\ [][(pc = "chunk_response" /\ pc' = "loop") => offset' = offset + chunk_size]_vars
    /\ (pc = "start_response") ~> (Finalized \/ Aborted)

C16_Witness ==
    /\ Finalized
    /\ fileSize = 41
    /\ Len(ChunkLog) = 3
    /\ MaxChunks = 3

(***************************************************************************)
(* C17                                                                     *)
(***************************************************************************)

\* C17: when both --photo and --video are given, or neither, or --photo
\* without a Google Maps key, or --video with a client that is not
\* whitelisted, no exchange at all is issued; and no run issues exchanges of
\* both the photo path and the video path.
C17_MainGuards ==
    /\ (\/ args.photo /\ args.video
        \/ ~args.photo /\ ~args.video
        \/ args.photo /\ ~args.googlemaps_key
        \/ args.video /\ ~whitelisted)
       => log = <<>>
    /\ ~(/\ \E i \in DOMAIN log : IsPhotoExchange(log[i])
         /\ \E i \in DOMAIN log : IsVideoExchange(log[i]))

C17_Witness ==
    /\ pc = "exit"
    /\ args.video
    /\ ~args.photo
    /\ ~whitelisted
    /\ exitStatus = 1
    /\ log = <<>>
====
